---- MODULE Spec2Model ----
(***************************************************************************)
(* Model of the H5N1 ingestion pipeline: the object store -> DuckDB        *)
(* synchronisation (DataOrchestrator.load_storage_to_database and          *)
(* DuckDBClient.insert_dataframe) and the StorageKey path scheme.          *)
(*                                                                         *)
(* The target table is abstracted to its primary-key column "pk"           *)
(* (case_id) and one payload column "val"; a staged Parquet file may carry *)
(* an additional column "extra" or lack a target column.  Strings of the   *)
(* path scheme are sequences of characters, with the fixed words of the    *)
(* scheme ("avian_cases", "year", ".parquet") taken as one character each. *)
(***************************************************************************)
EXTENDS Integers, Sequences, FiniteSets, TLC

\* ------------------------------------------------------------------ bounds
MaxKey == 2        \* primary-key values are 1..MaxKey
MaxFileRows == 1   \* rows in one staged Parquet object
MaxRows == 2       \* rows direct insert_dataframe calls pile up in the table
MaxSourceLen == 2  \* characters of a source name
MaxCalls == 2      \* path-building calls followed in one run
MaxBatch == 3      \* rows of a batch given to dataframe_to_models
MaxStored == 1     \* rows stored in a table between two schema runs
MaxSchemas == 2    \* table schemas, and view schemas, given to one schema run
MaxLogCalls == 3   \* get_logger calls followed in one run
MaxGets == 4       \* get_instance calls followed in one run

Keys == 1..MaxKey
\* payload values: "a" in rows the table holds already, "b" in staged files
Vals == {"a", "b"}

\* ------------------------------------------------------------ relations
\* schemas/database.py AVIAN_CASES_SCHEMA: ordered columns of the target
TargetCols == <<"pk", "val">>
TargetColSet == {TargetCols[i] : i \in 1..Len(TargetCols)}

\* column sets of the staged files: exact, with an extra column, or with a
\* target column missing
ColSets == {{"pk", "val"}, {"pk", "val", "extra"}, {"pk", "extra"}}

\* the staged rows over a column set; "-" (0 for pk) stands for a column the
\* relation lacks
RowsOf(cols, vals) ==
  { [pk |-> k, val |-> v, extra |-> x] :
      k \in (IF "pk" \in cols THEN Keys ELSE {0}),
      v \in (IF "val" \in cols THEN vals ELSE {"-"}),
      x \in (IF "extra" \in cols THEN {"x"} ELSE {"-"}) }

SeqsUpTo(S, n) == UNION { [1..m -> S] : m \in 0..n }

\* row order carries no meaning in a file or a table: one order per content
Sorted(rows) == \A i, j \in 1..Len(rows) : i < j => rows[i].pk <= rows[j].pk
DistinctKeys(rows) == \A i, j \in 1..Len(rows) : rows[i].pk = rows[j].pk => i = j

\* what a staged Parquet object may hold
Payloads(cols) ==
  {rows \in SeqsUpTo(RowsOf(cols, {"b"}), MaxFileRows) : Sorted(rows)}

\* what the target table may hold when the client opens the database
\* (keys are interchangeable: the table holds the rows of keys 1..n)
TablePool ==
  {[i \in 1..n |-> [pk |-> i, val |-> "a"]] : n \in 0..MaxKey}

EmptyDf == [cols |-> {}, rows |-> <<>>]

\* pandas df[target_columns]: keep only the named columns
SelectColumns(df, cols) ==
  [cols |-> df.cols \cap cols,
   rows |-> [i \in 1..Len(df.rows) |->
               [pk |-> IF "pk" \in cols THEN df.rows[i].pk ELSE 0,
                val |-> IF "val" \in cols THEN df.rows[i].val ELSE "-",
                extra |-> IF "extra" \in cols THEN df.rows[i].extra ELSE "-"]]]

\* the row of the target table a staged row becomes
TargetRow(r) == [pk |-> r.pk, val |-> r.val]

KeysOf(rows) == {rows[i].pk : i \in 1..Len(rows)}

\* DataFrame.empty
DfEmpty(df) == Len(df.rows) = 0 \/ df.cols = {}

\* ------------------------------------------------- DataFrame -> models
\* a row of a batch to convert: pk = 0 and val = "-" stand for NaN
ConvCols == {"pk", "val"}
ConvRows == { [pk |-> k, val |-> v] : k \in Keys \cup {0}, v \in {"a", "-"} }

\* row.to_dict() as it is, the NaN values kept
model_data_with_nan(row) == {"pk", "val"}

\* transformer.py:49-51  row.to_dict() without the NaN values: the fields left
model_data(row) ==
  (IF row.pk # 0 THEN {"pk"} ELSE {}) \cup (IF row.val # "-" THEN {"val"} ELSE {})

\* model_class.model_validate: the required field must be there, the optional
\* one may be missing
RequiredFields == {"pk"}
model_validate(row) == RequiredFields \subseteq model_data(row)

\* the record model_validate builds from the fields left: an optional field
\* that is missing takes its default None
validated(row) ==
  [pk |-> row.pk, val |-> IF "val" \in model_data(row) THEN row.val ELSE "None"]

\* transformer.py:48-59  the loop over df.iterrows(), each row in its own try
RECURSIVE convert_rows(_, _, _)
convert_rows(rows, i, acc) ==
  IF i > Len(rows) THEN acc
  ELSE IF model_validate(rows[i])
       THEN convert_rows(rows, i + 1, [acc EXCEPT !.models = Append(@, validated(rows[i]))])
       ELSE convert_rows(rows, i + 1,
                         [acc EXCEPT !.errors = Append(@, i),
                                     !.log = Append(@, "error")])

NoModels == [models |-> <<>>, errors |-> <<>>, log |-> <<>>, raised |-> FALSE]

\* the conversion with the per-row try/except taken away: the first rejected
\* row's exception leaves the function
dataframe_to_models_fatal(df) ==
  IF DfEmpty(df) THEN [NoModels EXCEPT !.log = <<"warning">>]
  ELSE IF \E i \in 1..Len(df.rows) : ~model_validate(df.rows[i])
       THEN [NoModels EXCEPT !.raised = TRUE]
       ELSE [NoModels EXCEPT !.models = [i \in 1..Len(df.rows) |-> validated(df.rows[i])],
                              !.log = <<"info">>]

\* transformer.py:36-67  DataTransformer.dataframe_to_models
dataframe_to_models(df) ==
  IF DfEmpty(df) THEN [NoModels EXCEPT !.log = <<"warning">>]
  ELSE LET r == convert_rows(df.rows, 1, NoModels)
       IN [r EXCEPT !.log = (IF Len(r.errors) > 0 THEN Append(@, "warning") ELSE @)
                             \o <<"info">>]

\* validated records to convert: pk is the required field, val the optional
\* one, None when left unset
Models == { [pk |-> k, val |-> v] : k \in Keys, v \in {"a", "None"} }

\* transformer.py:31-32  model.model_dump() as a row of the DataFrame: None
\* is a missing value of the column
flattened(model) ==
  [pk |-> model.pk, val |-> IF model.val = "None" THEN "-" ELSE model.val]

\* transformer.py:24-34  DataTransformer.model_to_dataframe
model_to_dataframe(models) ==
  IF Len(models) = 0 THEN [cols |-> {}, rows |-> <<>>]
  ELSE [cols |-> ConvCols, rows |-> [i \in 1..Len(models) |-> flattened(models[i])]]

NoConv ==
  [via |-> "none", src |-> <<>>, df |-> [cols |-> {}, rows |-> <<>>], out |-> NoModels]

\* ----------------------------------------------------------- object store
\* object names as token lists <<directory, base name, extension>>
ObjOrder ==
  << <<"p/", "a", ".parquet">>, <<"p/", "b", ".parquet">>, <<"q/", "c", ".csv">> >>
ObjNames == {ObjOrder[i] : i \in 1..Len(ObjOrder)}
Prefixes == {"p/", "q/"}

\* str.endswith
EndsWith(name, suffix) == name[Len(name)] = suffix
\* the object store lists the names that start with the prefix
StartsWith(name, prefix) == name[1] = prefix

Outcome == [kind : {"return", "raise"}, value : Int, error : STRING]
Ret(n) == [kind |-> "return", value |-> n, error |-> ""]
Raise(e) == [kind |-> "raise", value |-> 0, error |-> e]

VARIABLES
  store,      \* object name -> the rows of the object (present objects only)
  file_cols,  \* the columns the staged Parquet files are written with
  table,      \* rows of the target table, in insertion order
  has_pk,     \* whether the target table declares a primary key
  read_only,  \* DuckDBClient.read_only
  temps,      \* staging tables left in the session: "now" is the one named by
              \* the current clock second, "old" stands for those of past seconds
  last,       \* the last call and how it ended (history), kept until the store
              \* changes or the clock second ends
  key,        \* the StorageKey built last and what parsing its path gave
  conv,       \* the batch converted last and what dataframe_to_models gave
  catalog,    \* tables and views of the database, and the last schema call
  gateway,    \* the archive bucket and the last MinioClient operation on it
  instances,  \* MinioClient._instances and what get_instance returned
  logcfg,     \* LoggerConfig._is_configured, the root logger, the loggers
  archived,   \* the last archive_and_process call and its result
  paths       \* the object paths built so far with the calls that built them,
              \* and whether the platform's strftime("%Y") pads to 4 digits

syncvars == <<store, file_cols, table, has_pk, read_only, temps, last>>
newvars == <<catalog, gateway, instances, logcfg, archived>>
vars ==
  <<store, file_cols, table, has_pk, read_only, temps, last, key, paths, conv, newvars>>

\* ------------------------------------------------------------ MinioClient
\* the step of a call an injected I/O or query failure hits:
\* the steps load_storage_to_database reaches
SyncFaults == {"none", "list", "read", "columns", "count"}
\* the steps insert_dataframe reaches
InsertFaults == {"none", "count", "pk", "columns", "insert"}

\* MinioClient.list_objects: the names under the prefix, in listing order
list_objects(st, prefix) ==
  SelectSeq(ObjOrder, LAMBDA n : n \in DOMAIN st /\ StartsWith(n, prefix))

\* list_parquet_files without its extension filter
list_parquet_files_unfiltered(st, prefix) == list_objects(st, prefix)

\* MinioClient.list_parquet_files: [f for f in all_files if f.endswith(".parquet")]
list_parquet_files(st, prefix) ==
  SelectSeq(list_objects(st, prefix), LAMBDA n : EndsWith(n, ".parquet"))

\* MinioClient.get_parquet_uris: s3://bucket/path for each Parquet file
get_parquet_uris(st, prefix) == list_parquet_files(st, prefix)

\* ----------------------------------------------------------- DuckDBClient
RECURSIVE ReadAll(_, _)
\* read_parquet([uris]): the rows of the files, in the order of the list
ReadAll(st, uris) ==
  IF uris = <<>> THEN <<>> ELSE st[Head(uris)] \o ReadAll(st, Tail(uris))

\* DuckDBClient.read_external_parquet(uris, target_table)
read_external_parquet(st, cols, uris, fault) ==
  IF uris = <<>> THEN [outcome |-> Ret(0), df |-> EmptyDf, sql |-> <<>>]
  ELSE IF fault = "read"
  THEN [outcome |-> Raise("IOException"), df |-> EmptyDf, sql |-> <<"read_parquet">>]
  ELSE IF fault = "columns"
  THEN [outcome |-> Raise("CatalogException"), df |-> EmptyDf,
        sql |-> <<"read_parquet", "table_info">>]
  ELSE LET df == [cols |-> cols, rows |-> ReadAll(st, uris)]
       IN [outcome |-> Ret(0),
           df |-> IF TargetColSet \subseteq df.cols
                  THEN SelectColumns(df, TargetColSet) ELSE df,
           sql |-> <<"read_parquet", "table_info">>]

\* DuckDBClient._get_primary_key: the column with pk > 0 of PRAGMA table_info,
\* None ("") when there is none and also when the query fails
get_primary_key(haspk, fault) ==
  IF fault = "pk" THEN "" ELSE IF haspk THEN "pk" ELSE ""

\* Python truth value of the argument bound to avoid_duplicates: a bool is
\* itself, bool(DataFrame) raises ValueError ("truth value ... is ambiguous")
TruthValue(flag) ==
  CASE flag = "True" -> "true"
    [] flag = "False" -> "false"
    [] OTHER -> "ValueError"

\* DuckDB's binder: an unqualified column of the select list that both joined
\* relations have is an ambiguous reference
AmbiguousColumns(select, left, right) == {c \in select : c \in left /\ c \in right}

\* the key constraint of the target: the new keys are pairwise distinct and
\* none is in the table
KeysFresh(rows, new) ==
  /\ KeysOf(rows) \cap KeysOf(new) = {}
  /\ \A i, j \in 1..Len(new) : new[i].pk = new[j].pk => i = j

\* INSERT INTO t (cols) SELECT cols FROM temp  (one atomic statement)
PlainInsert(rows, df, haspk) ==
  IF ~(TargetColSet \subseteq df.cols)
  THEN [error |-> "BinderException", rows |-> rows]
  ELSE LET new == [i \in 1..Len(df.rows) |-> TargetRow(df.rows[i])]
       IN IF haspk /\ ~KeysFresh(rows, new)
          THEN [error |-> "ConstraintException", rows |-> rows]
          ELSE [error |-> "", rows |-> rows \o new]

\* INSERT INTO t (cols) SELECT cols FROM temp t LEFT JOIN t e
\*   ON t.pk = e.pk WHERE e.pk IS NULL  (one atomic statement)
AntiJoinInsert(rows, df, haspk) ==
  IF "pk" \notin df.cols
     \/ AmbiguousColumns(TargetColSet, df.cols, TargetColSet) # {}
  THEN [error |-> "BinderException", rows |-> rows]
  ELSE LET absent == SelectSeq(df.rows, LAMBDA r : r.pk \notin KeysOf(rows))
           new == [i \in 1..Len(absent) |-> TargetRow(absent[i])]
       IN IF haspk /\ ~KeysFresh(rows, new)
          THEN [error |-> "ConstraintException", rows |-> rows]
          ELSE [error |-> "", rows |-> rows \o new]

\* the staging statement written as CREATE OR REPLACE TABLE <target> AS SELECT
\* <target columns> FROM df: the rows of df take the place of the target's
create_staging_replace(rows, tmps, df) ==
  [rows |-> [i \in 1..Len(df.rows) |-> TargetRow(df.rows[i])], temps |-> tmps]

\* CREATE TEMPORARY TABLE temp_insert_<second> AS SELECT * FROM df: the
\* session gains the staging table, the target keeps its rows
create_staging(rows, tmps, df) == [rows |-> rows, temps |-> tmps \cup {"now"}]

\* DuckDBClient.insert_dataframe(table_name, avoid_duplicates), called with
\* flag bound to avoid_duplicates; df is the caller's local variable "df" and
\* found says whether DuckDB's replacement scan reaches the caller's frame.
\* hit: the injected failure was reached.
insert_dataframe(rows, tmps, haspk, ro, flag, df, found, fault) ==
  IF ro
  THEN [rows |-> rows, temps |-> tmps, outcome |-> Ret(0), sql |-> <<>>, hit |-> FALSE]
  ELSE IF ~found \/ "now" \in tmps
  THEN [rows |-> rows, temps |-> tmps, outcome |-> Raise("CatalogException"),
        sql |-> <<"create_temp">>, hit |-> FALSE]
  ELSE
    LET db == create_staging(rows, tmps, df)
        truth == TruthValue(flag)
        dedup == truth = "true" /\ get_primary_key(haspk, fault) # ""
        pre == <<"create_temp", "count">>
                 \o (IF truth = "true" THEN <<"table_info">> ELSE <<>>)
        stmt == IF dedup THEN "insert_antijoin" ELSE "insert_plain"
        res == IF dedup THEN AntiJoinInsert(db.rows, df, haspk)
               ELSE PlainInsert(db.rows, df, haspk)
    IN IF fault = "count"
       THEN [rows |-> db.rows, temps |-> db.temps, outcome |-> Raise("IOException"),
             sql |-> <<"create_temp", "count">>, hit |-> TRUE]
       ELSE IF truth = "ValueError"
       THEN [rows |-> db.rows, temps |-> db.temps, outcome |-> Raise("ValueError"),
             sql |-> <<"create_temp", "count">>, hit |-> FALSE]
       ELSE IF fault = "columns"
       THEN [rows |-> db.rows, temps |-> db.temps,
             outcome |-> Raise("CatalogException"),
             sql |-> pre \o <<"table_info">>, hit |-> TRUE]
       ELSE IF fault = "insert"
       THEN [rows |-> db.rows, temps |-> db.temps, outcome |-> Raise("IOException"),
             sql |-> pre \o <<"table_info", stmt>>, hit |-> TRUE]
       ELSE IF res.error # ""
       THEN [rows |-> db.rows, temps |-> db.temps, outcome |-> Raise(res.error),
             sql |-> pre \o <<"table_info", stmt>>,
             hit |-> (fault = "pk" /\ truth = "true")]
       ELSE [rows |-> res.rows, temps |-> tmps,
             outcome |-> Ret(Len(res.rows) - Len(db.rows)),
             sql |-> pre \o <<"table_info", stmt, "drop_temp", "count">>,
             hit |-> (fault = "pk" /\ truth = "true")]

\* --------------------------------------------------------- DataOrchestrator
\* the DataFrame of model_to_dataframe as the relation DuckDB stages
StagedFrame(df) ==
  [cols |-> df.cols,
   rows |-> [i \in 1..Len(df.rows) |->
               [pk |-> df.rows[i].pk, val |-> df.rows[i].val, extra |-> "-"]]]

\* orchestrator.py:33-57  DataOrchestrator.ingest_models_to_database: the
\* call self.db.insert_dataframe(table_name, df) binds df to avoid_duplicates
ingest_models_to_database(rows, tmps, haspk, ro, models, found, fault) ==
  IF Len(models) = 0
  THEN [rows |-> rows, temps |-> tmps, outcome |-> Ret(0), sql |-> <<>>,
        hit |-> FALSE]
  ELSE insert_dataframe(rows, tmps, haspk, ro, "DataFrame",
                        StagedFrame(model_to_dataframe(models)), found, fault)

\* DataOrchestrator.load_storage_to_database(bucket, prefix, table_name):
\* the synchronisation of a prefix into the target table.  The call
\* self.db.insert_dataframe(table_name, df) binds df to avoid_duplicates.
load_storage_to_database(st, cols, rows, tmps, haspk, ro, prefix, found, fault) ==
  IF fault = "list"
  THEN [rows |-> rows, temps |-> tmps, outcome |-> Raise("S3Error"), sql |-> <<>>,
        hit |-> TRUE]
  ELSE
    LET parquet_uris == get_parquet_uris(st, prefix)
        rd == read_external_parquet(st, cols, parquet_uris, fault)
        ins == insert_dataframe(rows, tmps, haspk, ro, "DataFrame", rd.df, found, fault)
    IN IF parquet_uris = <<>>
       THEN [rows |-> rows, temps |-> tmps, outcome |-> Ret(0), sql |-> <<>>,
             hit |-> FALSE]
       ELSE IF rd.outcome.kind = "raise"
       THEN [rows |-> rows, temps |-> tmps, outcome |-> rd.outcome, sql |-> rd.sql,
             hit |-> TRUE]
       ELSE IF ~DfEmpty(rd.df)
       THEN [rows |-> ins.rows, temps |-> ins.temps, outcome |-> ins.outcome,
             sql |-> rd.sql \o ins.sql, hit |-> ins.hit]
       ELSE [rows |-> rows, temps |-> tmps, outcome |-> Ret(0), sql |-> rd.sql,
             hit |-> FALSE]

\* the relation a synchronisation of the prefix stages
Staged(st, cols, prefix) ==
  [cols |-> cols, rows |-> ReadAll(st, get_parquet_uris(st, prefix))]

\* ------------------------------------------------------------- StorageKey
Digits == <<"0", "1", "2", "3", "4", "5", "6", "7", "8", "9">>
DigitSet == {Digits[i] : i \in 1..Len(Digits)}

RECURSIVE Str(_)
\* str(n) of a non-negative int
Str(n) == IF n < 10 THEN <<Digits[n + 1]>> ELSE Str(n \div 10) \o <<Digits[(n % 10) + 1]>>

\* f"{n:02d}"
Format02d(n) == IF n < 10 THEN <<"0">> \o Str(n) ELSE Str(n)

\* str.isdigit
IsDigit(s) == s # <<>> /\ \A i \in 1..Len(s) : s[i] \in DigitSet

RECURSIVE ToInt(_)
\* int(s) of a string of digits
ToInt(s) ==
  IF s = <<>> THEN 0
  ELSE 10 * ToInt(SubSeq(s, 1, Len(s) - 1))
         + (CHOOSE d \in 0..9 : Digits[d + 1] = s[Len(s)])

\* str.lower
Lower(s) == [i \in 1..Len(s) |-> IF s[i] = "A" THEN "a" ELSE s[i]]

\* str.replace(old, new) for one-character old and new
Replace(s, old, new) == [i \in 1..Len(s) |-> IF s[i] = old THEN new ELSE s[i]]

RECURSIVE Split(_, _)
\* str.split(sep)
Split(s, sep) ==
  IF \A i \in 1..Len(s) : s[i] # sep THEN <<s>>
  ELSE LET i == CHOOSE j \in 1..Len(s) :
                  s[j] = sep /\ \A k \in 1..(j - 1) : s[k] # sep
       IN <<SubSeq(s, 1, i - 1)>> \o Split(SubSeq(s, i + 1, Len(s)), sep)

\* DataCategory
DataCategory == {<<"avian_cases">>}
\* BucketName
BucketName == {"raw"}

NoFields ==
  [bucket |-> "", category |-> <<>>, source |-> <<>>, year |-> <<>>,
   month |-> <<>>, day |-> <<>>, filename |-> <<>>]
\* the result of a construction: the key, or the exception raised (its class
\* and the head of its message)
Built(k) == [error |-> "", key |-> k]
Failed(e) == [error |-> e, key |-> NoFields]
NoResult == [error |-> "none", key |-> NoFields]

\* StorageKey.__post_init__: the exception it raises, "" when it accepts
post_init(k) ==
  IF ~IsDigit(k.year) \/ Len(k.year) # 4 THEN "ValueError: Formato de ano invalido"
  ELSE IF ~IsDigit(k.month) \/ ~(1 <= ToInt(k.month) /\ ToInt(k.month) <= 12)
  THEN "ValueError: Formato de mes invalido"
  ELSE IF ~IsDigit(k.day) \/ ~(1 <= ToInt(k.day) /\ ToInt(k.day) <= 31)
  THEN "ValueError: Formato de dia invalido"
  ELSE ""

\* StorageKey(bucket, category, source, year, month, day, filename)
StorageKey(bucket, category, source, year, month, day, filename) ==
  LET k == [bucket |-> bucket, category |-> category, source |-> source,
            year |-> year, month |-> month, day |-> day, filename |-> filename]
  IN IF post_init(k) = "" THEN Built(k) ELSE Failed(post_init(k))

\* StorageKey.full_path
full_path(k) ==
  k.category \o <<"/">> \o k.source
    \o <<"/", "year", "=">> \o k.year
    \o <<"/", "month", "=">> \o k.month
    \o <<"/", "day", "=">> \o k.day
    \o <<"/">> \o k.filename

\* from_path with the length test off by one (len(parts) < 5): a path of five
\* segments reaches parts[5]
from_path_short(bucket, path) ==
  LET parts == Split(path, "/")
  IN IF Len(parts) < 5 THEN Failed("ValueError: Caminho invalido")
     ELSE IF \E i \in 3..5 : Len(Split(parts[i], "=")) < 2 THEN Failed("IndexError")
     ELSE IF Len(parts) < 6 THEN Failed("IndexError")
     ELSE IF parts[1] \notin DataCategory THEN Failed("ValueError: Categoria invalida")
     ELSE StorageKey(bucket, parts[1], parts[2], Split(parts[3], "=")[2],
                     Split(parts[4], "=")[2], Split(parts[5], "=")[2], parts[6])

\* StorageKey.from_path(bucket, path)
from_path(bucket, path) ==
  LET parts == Split(path, "/")
  IN IF Len(parts) < 6 THEN Failed("ValueError: Caminho invalido")
     ELSE IF \E i \in 3..5 : Len(Split(parts[i], "=")) < 2 THEN Failed("IndexError")
     ELSE IF parts[1] \notin DataCategory THEN Failed("ValueError: Categoria invalida")
     ELSE StorageKey(bucket, parts[1], parts[2], Split(parts[3], "=")[2],
                     Split(parts[4], "=")[2], Split(parts[5], "=")[2], parts[6])

\* AvianFluCase.to_storage_key(filename), for a case with this metadata.source
\* and detection_date
to_storage_key(source, date, filename) ==
  StorageKey("raw", <<"avian_cases">>, Replace(Lower(source), " ", "_"),
             Str(date.year), Format02d(date.month), Format02d(date.day), filename)

\* src/schemas/storage.py, the StorageKey dataclass of the src package: it has
\* no __post_init__, every field value is accepted
SrcStorageKey(bucket, category, source, year, month, day, filename) ==
  Built([bucket |-> bucket, category |-> category, source |-> source,
         year |-> year, month |-> month, day |-> day, filename |-> filename])

\* characters of a source name: upper case, lower case, space, path separator
SourceChars == {"A", "b", " ", "/"}
Sources == SeqsUpTo(SourceChars, MaxSourceLen)
Filenames == {<<"f", ".parquet">>, <<"g", ".parquet">>}
\* detection dates
Dates == [year : {999, 2023}, month : {5, 12}, day : {1, 31}]
\* field values of a direct construction
YearStrs == {<<"2", "0", "2", "3">>, <<"9", "9", "9">>}
MonthStrs == {<<"5">>, <<"0", "5">>, <<"1", "3">>}
DayStrs == {<<"0", "0", "5">>, <<"3", "1">>, <<"0">>}

RECURSIVE Join(_, _)
\* sep.join(parts)
Join(parts, sep) ==
  IF Len(parts) = 0 THEN <<>>
  ELSE IF Len(parts) = 1 THEN parts[1]
  ELSE parts[1] \o <<sep>> \o Join(Tail(parts), sep)

\* segments of the paths handed to from_path: well-formed ones, another key
\* name, no "=", a second "=", the keys in another order, a bad value
PathSegments ==
  << {<<"avian_cases">>, <<"other">>},
     {<<"b">>},
     {<<"year", "=", "2", "0", "2", "3">>, <<"ano", "=", "2", "0", "2", "3">>,
      <<"2", "0", "2", "3">>, <<"year", "=", "2", "0", "2", "3", "=", "x">>,
      <<"month", "=", "0", "5">>},
     {<<"month", "=", "0", "5">>, <<"0", "5">>, <<"year", "=", "2", "0", "2", "3">>},
     {<<"day", "=", "0", "1">>, <<"day", "=", "4", "0">>},
     {<<"f", ".parquet">>},
     {<<"x">>} >>
\* the paths of 1 to 7 segments over them
PathPool ==
  {Join(SubSeq(<<s1, s2, s3, s4, s5, s6, s7>>, 1, n), "/") :
     s1 \in PathSegments[1], s2 \in PathSegments[2], s3 \in PathSegments[3],
     s4 \in PathSegments[4], s5 \in PathSegments[5], s6 \in PathSegments[6],
     s7 \in PathSegments[7], n \in 1..7}

\* ------------------------------------------------------------ object paths
\* timestamp.strftime("%Y"): the C library pads the year to 4 digits or not
strftime_Y(year, padded) ==
  IF padded /\ year < 1000
  THEN (IF year < 10 THEN <<"0", "0", "0">>
        ELSE IF year < 100 THEN <<"0", "0">> ELSE <<"0">>) \o Str(year)
  ELSE Str(year)

\* timestamp.strftime("%Y%m%d%H%M%S"); hms stands for the digits of %H%M%S
file_timestamp(ts, padded) ==
  strftime_Y(ts.year, padded) \o Format02d(ts.month) \o Format02d(ts.day)
    \o <<ts.hms>>

RECURSIVE rstrip(_, _)
\* str.rstrip(c)
rstrip(str, c) ==
  IF str # <<>> /\ str[Len(str)] = c THEN rstrip(SubSeq(str, 1, Len(str) - 1), c)
  ELSE str

\* MinioClient._generate_key(data_type, source, timestamp, uuid_str) of the
\* src package
generate_key(data_type, source, ts, uuid_str, padded) ==
  data_type \o <<"/">> \o source
    \o <<"/", "year", "=">> \o strftime_Y(ts.year, padded)
    \o <<"/", "month", "=">> \o Format02d(ts.month)
    \o <<"/", "day", "=">> \o Format02d(ts.day)
    \o <<"/", "data_">> \o file_timestamp(ts, padded) \o <<"_">> \o uuid_str
    \o <<".parquet">>

\* MinioClient._create_partitioned_path(base_path, df, partition_cols,
\* timestamp): partition is the "/col=value" text of the columns df has;
\* uuid_str[:8] is the first element of the uuid
create_partitioned_path(base_path, partition, timestamp, uuid_str) ==
  rstrip(base_path, "/") \o partition
    \o <<"/">> \o timestamp \o <<"_", uuid_str[1], ".parquet">>

\* MinioClient.upload_parquet(bucket, path, dataframe, partition_cols): the
\* path of the object it puts
upload_parquet(path, partitioned, partition, ts, uuid_str, padded) ==
  IF partitioned
  THEN create_partitioned_path(path, partition, file_timestamp(ts, padded), uuid_str)
  ELSE rstrip(path, "/") \o <<"/">> \o file_timestamp(ts, padded) \o <<".parquet">>

\* MinioClient.upload_dataframe(bucket, category, source, df, timestamp) of
\* the src package: the key it constructs and puts the object under
upload_dataframe(bucket, category, source, ts, uuid_str, padded) ==
  SrcStorageKey(bucket, category, source, strftime_Y(ts.year, padded),
                Format02d(ts.month), Format02d(ts.day),
                <<"data_">> \o file_timestamp(ts, padded) \o <<"_">> \o uuid_str
                  \o <<".parquet">>)

\* uuid4 strings: the first 8 characters and the rest
Uuids == {<<"h1", "r1">>, <<"h1", "r2">>, <<"h2", "r1">>}
\* timestamps: dates with a time of day
Timestamps ==
  {[year |-> d[1], month |-> d[2], day |-> d[3], hms |-> t] :
     d \in {<<999, 12, 31>>, <<2023, 5, 1>>, <<2023, 5, 31>>, <<2023, 12, 1>>},
     t \in {"t1", "t2"}}
\* path prefixes and sources of the uploads
UploadSources == {<<"b">>, <<"b", "/">>}
\* the partition text: no partition column in df, or region=n
Partitions == {<<>>, <<"/", "region", "=", "n">>}

\* -------------------------------------------------------- database schema
\* schemas/database.py TableName: the tables, and the views with the table
\* their query reads
SchemaTables == {"avian_cases", "surveillance"}
SchemaColumns == <<"pk", "val">>

\* TableSchema values; member: the name is a TableName member, not a plain
\* str; primary_key "" is None
TableSchemas ==
  {[name |-> n, member |-> o[1], columns |-> SchemaColumns, primary_key |-> o[2]] :
     n \in SchemaTables,
     o \in {<<FALSE, "pk">>, <<FALSE, "">>, <<TRUE, "pk">>}}

\* lists of up to n schemas, no relation named twice
SchemaLists(S, n) ==
  {l \in SeqsUpTo(S, n) : \A i, j \in 1..Len(l) : l[i].name = l[j].name => i = j}

\* ViewSchema values: CASES_BY_REGION_VIEW, SURVEILLANCE_SUMMARY_VIEW
ViewSchemas ==
  {[name |-> "cases_by_region", reads |-> "avian_cases"],
   [name |-> "surveillance_summary", reads |-> "surveillance"]}

\* the predefined schemas of src/src/schemas/duckdb_schema.py
AVIAN_CASES_SCHEMA ==
  [name |-> "avian_cases", member |-> TRUE, columns |-> SchemaColumns,
   primary_key |-> "pk"]
SURVEILLANCE_SCHEMA ==
  [name |-> "surveillance", member |-> TRUE, columns |-> SchemaColumns,
   primary_key |-> "pk"]
CASES_BY_REGION_VIEW == [name |-> "cases_by_region", reads |-> "avian_cases"]
SURVEILLANCE_SUMMARY_VIEW == [name |-> "surveillance_summary", reads |-> "surveillance"]

\* f"{name}": a str gives itself; a member of TableName(str, Enum) gives its
\* value or "TableName.MEMBER", as the interpreter's Enum.__format__ decides
\* (fmt); the dotted text names a relation in the schema TableName
format_name(name, member, fmt) ==
  IF member /\ fmt = "name" THEN [schema |-> "TableName", name |-> name]
  ELSE [schema |-> "", name |-> name]

\* the column definitions of the statement, PRIMARY KEY on the key column
column_defs(schema) ==
  [i \in 1..Len(schema.columns) |->
     [col |-> schema.columns[i],
      pk |-> schema.primary_key # "" /\ schema.columns[i] = schema.primary_key]]

\* a table definition that replaces the table instead of keeping it
get_create_table_sql_replace(schema, fmt) ==
  [stmt |-> "CREATE OR REPLACE TABLE",
   name |-> format_name(schema.name, schema.member, fmt),
   columns |-> column_defs(schema), reads |-> ""]

\* schemas/database.py:24-37  TableSchema.get_create_table_sql
get_create_table_sql(schema, fmt) ==
  [stmt |-> "CREATE TABLE IF NOT EXISTS",
   name |-> format_name(schema.name, schema.member, fmt),
   columns |-> column_defs(schema), reads |-> ""]

\* schemas/database.py:47-50  ViewSchema.get_create_view_sql: the name's value
get_create_view_sql(schema) ==
  [stmt |-> "CREATE OR REPLACE VIEW", name |-> [schema |-> "", name |-> schema.name],
   columns |-> <<>>, reads |-> schema.reads]

\* src/src/schemas/duckdb_schema.py:41-43  get_create_view_sql: f"{self.name}"
legacy_get_create_view_sql(schema, fmt) ==
  [stmt |-> "CREATE OR REPLACE VIEW", name |-> format_name(schema.name, TRUE, fmt),
   columns |-> <<>>, reads |-> schema.reads]

\* conn.execute of one schema statement on the relations db holds
execute(db, sql) ==
  IF sql.name.schema # ""
  THEN [db EXCEPT !.error = "CatalogException"]
  ELSE IF sql.stmt = "CREATE OR REPLACE VIEW"
  THEN IF sql.reads \in DOMAIN db.tables
       THEN [db EXCEPT !.views = @ \cup {sql.name.name}]
       ELSE [db EXCEPT !.error = "CatalogException"]
  ELSE IF sql.stmt = "CREATE TABLE IF NOT EXISTS" /\ sql.name.name \in DOMAIN db.tables
  THEN db
  ELSE [db EXCEPT !.tables =
          [n \in DOMAIN db.tables \cup {sql.name.name} |->
             IF n = sql.name.name
             THEN [columns |-> [i \in 1..Len(sql.columns) |-> sql.columns[i].col],
                   pk |-> {sql.columns[i].col : i \in {j \in 1..Len(sql.columns) :
                                                         sql.columns[j].pk}},
                   rows |-> <<>>]
             ELSE db.tables[n]]]

\* the statements run one after the other until one fails; sql: those sent
RECURSIVE execute_all(_, _, _)
execute_all(db, sqls, i) ==
  IF i > Len(sqls) \/ db.error # "" THEN db
  ELSE execute_all([execute(db, sqls[i]) EXCEPT !.sql = Append(@, sqls[i])], sqls, i + 1)

\* the schema run of a client that does not look at read_only
initialize_schema_unguarded(db, ro, tables, views, fmt) ==
  execute_all(db,
    [i \in 1..Len(tables) |-> get_create_table_sql(tables[i], fmt)]
      \o [i \in 1..Len(views) |-> get_create_view_sql(views[i])], 1)

\* the schema run with the views created before the tables
initialize_schema_views_first(db, ro, tables, views, fmt) ==
  IF ro THEN db
  ELSE execute_all(db,
         [i \in 1..Len(views) |-> get_create_view_sql(views[i])]
           \o [i \in 1..Len(tables) |-> get_create_table_sql(tables[i], fmt)], 1)

\* duck_db.py:55-77  DuckDBClient.initialize_schema(tables, views)
initialize_schema(db, ro, tables, views, fmt) ==
  IF ro THEN db
  ELSE execute_all(db,
         [i \in 1..Len(tables) |-> get_create_table_sql(tables[i], fmt)]
           \o [i \in 1..Len(views) |-> get_create_view_sql(views[i])], 1)

\* src/src/database/duckdb_client.py:89-96  DuckDBClient.initialize_schema()
legacy_initialize_schema(db, fmt) ==
  execute_all(db,
    <<get_create_table_sql(AVIAN_CASES_SCHEMA, fmt),
      get_create_table_sql(SURVEILLANCE_SCHEMA, fmt),
      legacy_get_create_view_sql(CASES_BY_REGION_VIEW, fmt),
      legacy_get_create_view_sql(SURVEILLANCE_SUMMARY_VIEW, fmt)>>, 1)

NoRelations == [tables |-> <<>>, views |-> {}, error |-> "", sql |-> <<>>]
NoSchemaCall ==
  [op |-> "none", tables |-> <<>>, views |-> <<>>, repeat |-> FALSE]
\* fmt: what f"{member}" gives in this interpreter; db: the relations, with the
\* statements and the error of the last schema call
NoCatalog == [fmt |-> "value", db |-> NoRelations, last |-> NoSchemaCall]

\* ------------------------------------------------- object-store gateway
\* object paths in the archive bucket
ArchivePaths == {"o1", "o2"}

\* how the underlying Minio call of an operation fails: not at all, with
\* S3Error AccessDenied on every call, with S3Error AccessDenied on the calls
\* that write, or with a connection error (urllib3, not an S3Error)
GatewayFaults == {"none", "AccessDenied", "WriteDenied", "Network"}

\* minio.error.S3Error, the only exception class the handlers name
IsS3Error(e) == e \in {"AccessDenied", "NoSuchBucket", "NoSuchKey"}

\* the error of a reading / of a writing call on a bucket
ReadError(g, fault) ==
  IF fault \in {"AccessDenied", "Network"} THEN fault
  ELSE IF ~g.bucket THEN "NoSuchBucket" ELSE ""
WriteError(g, fault) ==
  IF fault = "WriteDenied" THEN "AccessDenied" ELSE ReadError(g, fault)

\* try: ... except S3Error as e: logger.error(...); raise
Propagated(g, e, calls) ==
  [bucket |-> g.bucket, objects |-> g.objects, outcome |-> Raise(e),
   logged |-> IF IsS3Error(e) THEN 1 ELSE 0, calls |-> calls, failed |-> TRUE]

Done(bucket, objects, value, calls) ==
  [bucket |-> bucket, objects |-> objects, outcome |-> Ret(value), logged |-> 0,
   calls |-> calls, failed |-> FALSE]

\* minio.py:59-72  MinioClient.ensure_bucket_exists
ensure_bucket_exists(g, fault) ==
  IF fault \in {"AccessDenied", "Network"}
  THEN Propagated(g, fault, <<"bucket_exists">>)
  ELSE IF g.bucket THEN Done(TRUE, g.objects, 0, <<"bucket_exists">>)
  ELSE IF fault = "WriteDenied"
  THEN Propagated(g, "AccessDenied", <<"bucket_exists", "make_bucket">>)
  ELSE Done(TRUE, g.objects, 0, <<"bucket_exists", "make_bucket">>)

\* minio.py:74-92  MinioClient.list_objects
gateway_list_objects(g, fault) ==
  IF ReadError(g, fault) # ""
  THEN Propagated(g, ReadError(g, fault), <<"list_objects">>)
  ELSE Done(g.bucket, g.objects, Cardinality(g.objects), <<"list_objects">>)

\* minio.py:94-133  MinioClient.upload_object: the handler of
\* ensure_bucket_exists logs, then this one logs again
upload_object(g, path, fault) ==
  LET b == ensure_bucket_exists(g, fault)
  IN IF b.outcome.kind = "raise"
     THEN [b EXCEPT !.logged = @ + (IF IsS3Error(b.outcome.error) THEN 1 ELSE 0)]
     ELSE IF fault = "WriteDenied"
     THEN Propagated([g EXCEPT !.bucket = b.bucket], "AccessDenied",
                     b.calls \o <<"put_object">>)
     ELSE Done(b.bucket, g.objects \cup {path}, 1, b.calls \o <<"put_object">>)

\* minio.py:135-150  MinioClient.download_object
download_object(g, path, fault) ==
  IF ReadError(g, fault) # ""
  THEN Propagated(g, ReadError(g, fault), <<"get_object">>)
  ELSE IF path \notin g.objects THEN Propagated(g, "NoSuchKey", <<"get_object">>)
  ELSE Done(g.bucket, g.objects, 1, <<"get_object">>)

\* minio.py:152-165  MinioClient.delete_object
delete_object(g, path, fault) ==
  IF WriteError(g, fault) # ""
  THEN Propagated(g, WriteError(g, fault), <<"remove_object">>)
  ELSE Done(g.bucket, g.objects \ {path}, 0, <<"remove_object">>)

\* minio.py:312-322  MinioClient.object_exists: True is 1, False is 0; every
\* S3Error is answered False, any other exception leaves the method
object_exists(g, path, fault) ==
  LET e == IF ReadError(g, fault) # "" THEN ReadError(g, fault)
           ELSE IF path \notin g.objects THEN "NoSuchKey" ELSE ""
  IN IF e = "" THEN Done(g.bucket, g.objects, 1, <<"stat_object">>)
     ELSE IF IsS3Error(e)
     THEN [Done(g.bucket, g.objects, 0, <<"stat_object">>) EXCEPT
             !.failed = fault \in {"AccessDenied", "Network"}]
     ELSE [Propagated(g, e, <<"stat_object">>) EXCEPT !.logged = 0]

\* ------------------------------------------------ shared MinioClient
\* MinIOConfig values: endpoint and credentials
MinIOConfigs ==
  {[endpoint |-> e, access_key |-> k] : e \in {"localhost:9000", "minio:9000"},
                                        k \in {"minioadmin", "other"}}
\* MinIOConfig(): the defaults of configs/settings.py
DefaultMinIOConfig == [endpoint |-> "localhost:9000", access_key |-> "minioadmin"]
NoConfig == [endpoint |-> "", access_key |-> ""]

\* a get_instance that builds a client on every call and caches it
get_instance_replacing(inst, config) ==
  LET c == IF config = NoConfig THEN DefaultMinIOConfig ELSE config
      cache_key == c.endpoint
      new == [id |-> inst.made + 1, config |-> c]
  IN [cache |-> [k \in DOMAIN inst.cache \cup {cache_key} |->
                   IF k = cache_key THEN new ELSE inst.cache[k]],
      made |-> inst.made + 1,
      calls |-> Append(inst.calls, [config |-> c, returned |-> new])]

\* minio.py:45-57  MinioClient.get_instance(config); id: the identity of the
\* client object, made: the clients constructed so far
get_instance(inst, config) ==
  LET c == IF config = NoConfig THEN DefaultMinIOConfig ELSE config
      cache_key == c.endpoint
      new == [id |-> inst.made + 1, config |-> c]
  IN IF cache_key \notin DOMAIN inst.cache
     THEN [cache |-> [k \in DOMAIN inst.cache \cup {cache_key} |->
                        IF k = cache_key THEN new ELSE inst.cache[k]],
           made |-> inst.made + 1,
           calls |-> Append(inst.calls, [config |-> c, returned |-> new])]
     ELSE [inst EXCEPT
             !.calls = Append(@, [config |-> c, returned |-> inst.cache[cache_key]])]

\* _instances = {}: no client cached, none constructed, no call made
NoInstances == [cache |-> <<>>, made |-> 0, calls |-> <<>>]
\* ---------------------------------------------------------------- logging
\* arguments of LoggerConfig.configure: log_level ("" is None, "verbose" is
\* no level of the logging module), log_file ("" is None), use_colors
ConfigureArgs ==
  {[log_level |-> l, log_file |-> f, use_colors |-> c] :
     l \in {"", "ERROR", "verbose"}, f \in {"", "app.log"}, c \in BOOLEAN}
LoggerNames == {"connectors", "schemas"}

\* a configure without the _is_configured test
configure_again(cfg, args, env_level) ==
  LET log_level == IF args.log_level = "" THEN env_level ELSE args.log_level
  IN IF log_level = "verbose"
     THEN [cfg EXCEPT !.raised = TRUE]
     ELSE [cfg EXCEPT
             !.raised = FALSE,
             !.root = [level |-> log_level,
                       handlers |->
                         <<IF args.use_colors THEN "console_colored" ELSE "console">>
                           \o (IF args.log_file # "" THEN <<"file">> ELSE <<>>)],
             !.is_configured = TRUE]

\* logger.py:44-118  LoggerConfig.configure; env_level: Logging().level;
\* setLevel of an unknown level raises before anything is changed
configure(cfg, args, env_level) ==
  IF cfg.is_configured THEN [cfg EXCEPT !.raised = FALSE]
  ELSE LET log_level == IF args.log_level = "" THEN env_level ELSE args.log_level
       IN IF log_level = "verbose"
          THEN [cfg EXCEPT !.raised = TRUE]
          ELSE [cfg EXCEPT
                  !.raised = FALSE,
                  !.root = [level |-> log_level,
                            handlers |->
                              <<IF args.use_colors THEN "console_colored"
                                ELSE "console">>
                                \o (IF args.log_file # "" THEN <<"file">> ELSE <<>>)],
                  !.is_configured = TRUE]

\* logging.getLogger(name): the logger object of the name, made on first use
getLogger(cfg, name) ==
  IF name \in DOMAIN cfg.manager THEN cfg
  ELSE [cfg EXCEPT !.manager = [n \in DOMAIN cfg.manager \cup {name} |->
                                  IF n = name THEN Cardinality(DOMAIN cfg.manager) + 1
                                  ELSE cfg.manager[n]]]

\* logger.py:120-139  LoggerConfig.get_logger(name)
get_logger(cfg, name, env_level) ==
  LET c == IF ~cfg.is_configured
           THEN configure(cfg, [log_level |-> "", log_file |-> "", use_colors |-> TRUE],
                          env_level)
           ELSE cfg
      m == IF name \notin DOMAIN c.loggers THEN getLogger(c, name) ELSE c
      d == IF name \notin DOMAIN c.loggers
           THEN [m EXCEPT !.loggers = [n \in DOMAIN c.loggers \cup {name} |->
                                         IF n = name THEN m.manager[name]
                                         ELSE c.loggers[n]]]
           ELSE m
  IN [d EXCEPT !.calls = Append(@, [name |-> name, returned |-> d.loggers[name]])]

\* the process before configs.logger is imported: the root logger of the
\* logging module at WARNING without handlers
NoLogging ==
  [imported |-> FALSE, is_configured |-> FALSE, env_level |-> "DEBUG",
   root |-> [level |-> "WARNING", handlers |-> <<>>], raised |-> FALSE,
   manager |-> <<>>, loggers |-> <<>>, calls |-> <<>>, op |-> "none",
   args |-> [log_level |-> "", log_file |-> "", use_colors |-> TRUE]]
\* ------------------------------------------------- archive and process
\* data_source values: a non-empty list of models, an empty list, a
\* DataFrame, anything else (a list of dicts, None)
DataSources ==
  {[kind |-> "models", models |-> m, df |-> EmptyDf] :
     m \in SeqsUpTo(Models, MaxFileRows) \ {<<>>}}
  \cup {[kind |-> "list", models |-> <<>>, df |-> EmptyDf],
        [kind |-> "unsupported", models |-> <<>>, df |-> EmptyDf]}
  \cup {[kind |-> "dataframe", models |-> <<>>, df |-> [cols |-> TargetColSet, rows |-> r]] :
          r \in Payloads(TargetColSet)}

\* the object path of the archive, archive_prefix/process_name/Y/m/d/ts.parquet
ArchivePath == "o1"

NoResults == [archived_uri |-> "", records_processed |-> 0]

\* minio.py:167-211  MinioClient.upload_parquet(bucket, path, df) as the
\* gateway sees it: ensure_bucket_exists, then upload_object
gateway_upload_parquet(g, path, fault) ==
  LET b == ensure_bucket_exists(g, fault)
  IN IF b.outcome.kind = "raise" THEN b
     ELSE upload_object([g EXCEPT !.bucket = b.bucket], path, fault)

\* the operation with the insert made before the upload
archive_and_process_insert_first(g, rows, tmps, haspk, ro, source, gfault, found, fault) ==
  LET df == IF source.kind = "models" THEN StagedFrame(model_to_dataframe(source.models))
            ELSE source.df
      ins == insert_dataframe(rows, tmps, haspk, ro, "DataFrame", df, found, fault)
      up == gateway_upload_parquet(g, ArchivePath, gfault)
  IN IF source.kind \notin {"models", "dataframe"}
     THEN [bucket |-> g.bucket, objects |-> g.objects, rows |-> rows, temps |-> tmps,
           outcome |-> Ret(0), results |-> NoResults, steps |-> <<>>]
     ELSE IF ins.outcome.kind = "raise"
     THEN [bucket |-> g.bucket, objects |-> g.objects, rows |-> ins.rows,
           temps |-> ins.temps, outcome |-> ins.outcome, results |-> NoResults,
           steps |-> <<"insert">>]
     ELSE IF up.outcome.kind = "raise"
     THEN [bucket |-> up.bucket, objects |-> up.objects, rows |-> ins.rows,
           temps |-> ins.temps, outcome |-> up.outcome, results |-> NoResults,
           steps |-> <<"insert", "upload">>]
     ELSE [bucket |-> up.bucket, objects |-> up.objects, rows |-> ins.rows,
           temps |-> ins.temps, outcome |-> Ret(0),
           results |-> [archived_uri |-> ArchivePath,
                        records_processed |-> ins.outcome.value],
           steps |-> <<"insert", "upload">>]

\* orchestrator.py:162-217  DataOrchestrator.archive_and_process; the call
\* self.db.insert_dataframe(target_table, df) binds df to avoid_duplicates
archive_and_process(g, rows, tmps, haspk, ro, source, gfault, found, fault) ==
  LET df == IF source.kind = "models" THEN StagedFrame(model_to_dataframe(source.models))
            ELSE source.df
      up == gateway_upload_parquet(g, ArchivePath, gfault)
      ins == insert_dataframe(rows, tmps, haspk, ro, "DataFrame", df, found, fault)
  IN IF source.kind \notin {"models", "dataframe"}
     THEN [bucket |-> g.bucket, objects |-> g.objects, rows |-> rows, temps |-> tmps,
           outcome |-> Ret(0), results |-> NoResults, steps |-> <<>>]
     ELSE IF up.outcome.kind = "raise"
     THEN [bucket |-> up.bucket, objects |-> up.objects, rows |-> rows, temps |-> tmps,
           outcome |-> up.outcome, results |-> NoResults, steps |-> <<"upload">>]
     ELSE IF ins.outcome.kind = "raise"
     THEN [bucket |-> up.bucket, objects |-> up.objects, rows |-> ins.rows,
           temps |-> ins.temps, outcome |-> ins.outcome, results |-> NoResults,
           steps |-> <<"upload", "insert">>]
     ELSE [bucket |-> up.bucket, objects |-> up.objects, rows |-> ins.rows,
           temps |-> ins.temps, outcome |-> Ret(0),
           results |-> [archived_uri |-> ArchivePath,
                        records_processed |-> ins.outcome.value],
           steps |-> <<"upload", "insert">>]

\* no archive_and_process call yet
NoArchive ==
  [op |-> "none", kind |-> "", objects |-> {}, before |-> <<>>, outcome |-> Ret(0),
   results |-> NoResults, steps |-> <<>>]

NoGatewayCall ==
  [op |-> "none", path |-> "", fault |-> "none", outcome |-> Ret(0), logged |-> 0,
   calls |-> <<>>, failed |-> FALSE]
NoGateway == [bucket |-> FALSE, objects |-> {}, last |-> NoGatewayCall]

\* the gateway after an operation that gave r
AfterCall(op, path, fault, r) ==
  [bucket |-> r.bucket, objects |-> r.objects,
   last |-> [op |-> op, path |-> path, fault |-> fault, outcome |-> r.outcome,
             logged |-> r.logged, calls |-> r.calls, failed |-> r.failed]]

\* ------------------------------------------------------------------ state
NoPaths == [padded |-> TRUE, calls |-> <<>>]

\* via: the construction path of built; path: the string from_path was given
NoKey == [via |-> "none", built |-> NoResult, path |-> <<>>, parsed |-> NoResult]

NoCall ==
  [op |-> "none", prefix |-> "", flag |-> "", fault |-> "none", before |-> <<>>,
   outcome |-> Ret(0), sql |-> <<>>, hit |-> FALSE, arg |-> <<>>]

\* the parts of the state the runs below leave as constructed
\* the state outside the database, as constructed
InitRest ==
  /\ gateway = NoGateway
  /\ instances = NoInstances
  /\ logcfg = NoLogging
  /\ archived = NoArchive

InitNew ==
  /\ catalog = NoCatalog
  /\ InitRest

Init ==
  /\ store = [n \in {<<"q/", "c", ".csv">>} |-> <<>>]
  /\ file_cols \in ColSets
  /\ has_pk \in BOOLEAN
  /\ table \in TablePool
  /\ read_only \in BOOLEAN
  /\ temps = {}
  /\ last = NoCall
  /\ key = NoKey
  /\ paths = NoPaths
  /\ conv = NoConv
  /\ InitNew

\* MinioClient.upload_object: put_object creates or overwrites the object
PutObject ==
  \E n \in ObjNames, rows \in Payloads(file_cols) :
    /\ EndsWith(n, ".parquet") \/ rows = <<>>
    /\ IF n \in DOMAIN store THEN store[n] # rows ELSE TRUE
    /\ store' = [m \in DOMAIN store \cup {n} |-> IF m = n THEN rows ELSE store[m]]
    /\ last' = NoCall
    /\ UNCHANGED <<file_cols, table, has_pk, read_only, temps, key, paths, conv, newvars>>

\* a second of wall-clock time passes: datetime.now() names a fresh staging table
Tick ==
  /\ "now" \in temps
  /\ temps' = {"old"}
  /\ last' = NoCall
  /\ UNCHANGED <<store, file_cols, table, has_pk, read_only, key, paths, conv, newvars>>

\* a caller runs DataOrchestrator.load_storage_to_database(bucket, prefix, table)
Synchronize ==
  \E prefix \in Prefixes, found \in BOOLEAN, fault \in SyncFaults :
    LET r == load_storage_to_database(store, file_cols, table, temps, has_pk,
                                      read_only, prefix, found, fault)
    IN /\ table' = r.rows
       /\ temps' = r.temps
       /\ last' = [op |-> "sync", prefix |-> prefix, flag |-> "DataFrame",
                   fault |-> fault, before |-> table, outcome |-> r.outcome,
                   sql |-> r.sql, hit |-> r.hit, arg |-> <<>>]
       /\ UNCHANGED <<store, file_cols, has_pk, read_only, key, paths, conv, newvars>>

\* a caller holding a DataFrame df runs DuckDBClient.insert_dataframe(table, flag)
InsertDataframe ==
  \E flag \in {"True", "False"}, cols \in ColSets, found \in BOOLEAN,
     fault \in InsertFaults :
    \E rows \in Payloads(cols) :
      LET r == insert_dataframe(table, temps, has_pk, read_only, flag,
                                [cols |-> cols, rows |-> rows], found, fault)
      IN /\ Len(table) + Len(rows) <= MaxRows
         /\ table' = r.rows
         /\ temps' = r.temps
         /\ last' = [op |-> "insert", prefix |-> "", flag |-> flag, fault |-> fault,
                     before |-> table, outcome |-> r.outcome, sql |-> r.sql,
                     hit |-> r.hit, arg |-> <<>>]
         /\ UNCHANGED <<store, file_cols, has_pk, read_only, key, paths, conv, newvars>>

\* a caller runs DataOrchestrator.ingest_models_to_database(models, table)
\* with up to MaxFileRows validated records
IngestModels ==
  \E models \in SeqsUpTo(Models, MaxFileRows), found \in BOOLEAN,
     fault \in InsertFaults :
    LET r == ingest_models_to_database(table, temps, has_pk, read_only, models,
                                       found, fault)
    IN /\ Len(table) + Len(models) <= MaxRows
       /\ table' = r.rows
       /\ temps' = r.temps
       /\ last' = [op |-> "ingest", prefix |-> "", flag |-> "DataFrame",
                   fault |-> fault, before |-> table, outcome |-> r.outcome,
                   sql |-> r.sql, hit |-> r.hit, arg |-> models]
       /\ UNCHANGED <<store, file_cols, has_pk, read_only, key, paths, conv, newvars>>

Next == PutObject \/ Tick \/ Synchronize

Spec == Init /\ [][Next]_vars

\* direct callers of DuckDBClient.insert_dataframe on a database that starts
\* with an empty target table
InitInsert ==
  /\ store = [n \in {<<"q/", "c", ".csv">>} |-> <<>>]
  /\ file_cols = TargetColSet
  /\ has_pk \in BOOLEAN
  /\ table = <<>>
  /\ read_only \in BOOLEAN
  /\ temps = {}
  /\ last = NoCall
  /\ key = NoKey
  /\ paths = NoPaths
  /\ conv = NoConv
  /\ InitNew

NextInsert == Tick \/ InsertDataframe \/ IngestModels

SpecInsert == InitInsert /\ [][NextInsert]_vars

\* ------------------------------------------------------- path scheme runs
InitKey ==
  /\ store = [n \in {<<"q/", "c", ".csv">>} |-> <<>>]
  /\ file_cols = TargetColSet
  /\ has_pk = TRUE
  /\ table = <<>>
  /\ read_only = FALSE
  /\ temps = {}
  /\ last = NoCall
  /\ key = NoKey
  /\ paths = NoPaths
  /\ conv = NoConv
  /\ InitNew

\* a case builds the key of the file it is archived in
ToStorageKey ==
  \E source \in Sources, date \in Dates, filename \in Filenames :
    /\ key' = [via |-> "to_storage_key",
               built |-> to_storage_key(source, date, filename),
               path |-> <<>>, parsed |-> NoResult]
    /\ UNCHANGED <<syncvars, paths, conv, newvars>>

\* a caller constructs a StorageKey from field values
Construct ==
  \E source \in Sources, year \in YearStrs, month \in MonthStrs, day \in DayStrs,
     filename \in Filenames :
    /\ key' = [via |-> "StorageKey",
               built |-> StorageKey("raw", <<"avian_cases">>, source, year, month,
                                    day, filename),
               path |-> <<>>, parsed |-> NoResult]
    /\ UNCHANGED <<syncvars, paths, conv, newvars>>

\* a caller constructs a StorageKey of the src package from field values
ConstructSrc ==
  \E year \in YearStrs, month \in MonthStrs, day \in DayStrs :
    /\ key' = [via |-> "SrcStorageKey",
               built |-> SrcStorageKey("raw", <<"avian_cases">>, <<"b">>, year,
                                       month, day, <<"f", ".parquet">>),
               path |-> <<>>, parsed |-> NoResult]
    /\ UNCHANGED <<syncvars, paths, conv, newvars>>

\* the path of the key built last is parsed back
FromPath ==
  /\ key.built.error = ""
  /\ key.via # "SrcStorageKey"
  /\ key.parsed = NoResult
  /\ key' = [key EXCEPT !.path = full_path(key.built.key),
                         !.parsed = from_path(key.built.key.bucket,
                                              full_path(key.built.key))]
  /\ UNCHANGED <<syncvars, paths, conv, newvars>>

\* a caller parses the name of an object of the bucket
ParsePath ==
  \E path \in PathPool :
    /\ key' = [via |-> "from_path", built |-> NoResult, path |-> path,
               parsed |-> from_path("raw", path)]
    /\ UNCHANGED <<syncvars, paths, conv, newvars>>

NextKey == ToStorageKey \/ Construct \/ ConstructSrc \/ FromPath \/ ParsePath

SpecKey == InitKey /\ [][NextKey]_vars

\* ------------------------------------------------------- object path runs
InitPaths ==
  /\ store = [n \in {<<"q/", "c", ".csv">>} |-> <<>>]
  /\ file_cols = TargetColSet
  /\ has_pk = TRUE
  /\ table = <<>>
  /\ read_only = FALSE
  /\ temps = {}
  /\ last = NoCall
  /\ key = NoKey
  /\ paths \in {[padded |-> p, calls |-> <<>>] : p \in BOOLEAN}
  /\ conv = NoConv
  /\ InitNew

\* the calls with a path-building call added, recorded with its inputs; date
\* is the partition text year=../month=../day=.. of the path, <<>> when it
\* has none
Recorded(via, source, ts, uuid_str, date, path) ==
  [paths EXCEPT !.calls = Append(@,
     [via |-> via, source |-> source, ts |-> ts, uuid |-> uuid_str,
      date |-> date, path |-> path])]

\* the partition text of a key
DateText(k) ==
  <<"year", "=">> \o k.year \o <<"/", "month", "=">> \o k.month
    \o <<"/", "day", "=">> \o k.day

\* MinioClient.upload_parquet puts an object
UploadParquet ==
  \E path \in UploadSources, partitioned \in BOOLEAN, partition \in Partitions,
     ts \in Timestamps, uuid_str \in Uuids :
    /\ Len(paths.calls) < MaxCalls
    /\ partitioned \/ (partition = <<>> /\ uuid_str = <<"h1", "r1">>)
    /\ paths' = Recorded("upload_parquet", path, ts,
                         IF partitioned THEN uuid_str ELSE <<>>, <<>>,
                         upload_parquet(path, partitioned, partition, ts, uuid_str,
                                        paths.padded))
    /\ UNCHANGED <<syncvars, key, conv, newvars>>

\* MinioClient.upload_avian_case of the src package puts an object under the
\* key of _generate_key
UploadAvianCase ==
  \E source \in UploadSources, ts \in Timestamps, uuid_str \in Uuids :
    /\ Len(paths.calls) < MaxCalls
    /\ paths' = Recorded("generate_key", source, ts, uuid_str,
                         DateText([year |-> strftime_Y(ts.year, paths.padded),
                                   month |-> Format02d(ts.month),
                                   day |-> Format02d(ts.day)]),
                         generate_key(<<"avian_cases">>, source, ts, uuid_str,
                                      paths.padded))
    /\ UNCHANGED <<syncvars, key, conv, newvars>>

\* MinioClient.upload_dataframe of the src package puts an object
UploadDataframe ==
  \E source \in UploadSources, ts \in Timestamps, uuid_str \in Uuids :
    LET r == upload_dataframe("raw", <<"avian_cases">>, source, ts, uuid_str,
                              paths.padded)
    IN /\ Len(paths.calls) < MaxCalls
       /\ paths' = Recorded("upload_dataframe", source, ts, uuid_str,
                            DateText(r.key), full_path(r.key))
       /\ UNCHANGED <<syncvars, key, conv, newvars>>

\* a case builds its key; the path is <<>> when the construction fails
BuildKey ==
  \E source \in UploadSources, ts \in Timestamps :
    LET r == to_storage_key(source, ts, <<"f", ".parquet">>)
    IN /\ Len(paths.calls) < MaxCalls
       /\ paths' = Recorded("to_storage_key", source, ts, <<>>,
                            IF r.error = "" THEN DateText(r.key) ELSE <<>>,
                            IF r.error = "" THEN full_path(r.key) ELSE <<>>)
       /\ UNCHANGED <<syncvars, key, conv, newvars>>

NextPaths == UploadParquet \/ UploadAvianCase \/ UploadDataframe \/ BuildKey

SpecPaths == InitPaths /\ [][NextPaths]_vars

\* ------------------------------------------------------------ properties
\* the rows staged under the prefix of the last synchronisation (the store is
\* as that call saw it, see last)
StagedRows == Staged(store, file_cols, last.prefix).rows

\* the last call was a synchronisation that no injected failure disturbed, by
\* a writable client, of files that carry every column of the target
CleanSync ==
  /\ last.op = "sync"
  /\ last.fault = "none"
  /\ ~read_only
  /\ TargetColSet \subseteq file_cols

Count(rows, r) == Cardinality({i \in 1..Len(rows) : rows[i] = r})

\* C1: after a synchronisation into a table that declares a primary key, no
\* two rows of the table share a key and every key that occurs in a staged
\* file is in the table.
C1_ExactlyOnce ==
  (CleanSync /\ has_pk) =>
    /\ DistinctKeys(table)
    /\ KeysOf(StagedRows) \subseteq KeysOf(table)

\* C2: a synchronisation that directly follows one of the same prefix, the
\* store unchanged in between, returns 0 and leaves the table as it was.
C2_SecondCallReturnsZero ==
  [][(/\ last.op = "sync" /\ last.fault = "none"
      /\ last'.op = "sync" /\ last'.fault = "none"
      /\ last'.prefix = last.prefix
      /\ store' = store)
       => (last'.outcome = Ret(0) /\ table' = table)]_vars

\* C3: synchronize returns the number of rows it added to the table, which
\* for a table with a primary key is the number of staged keys that were not
\* in the table before the call.
C3_ReturnsRowsAdded ==
  (CleanSync /\ has_pk) =>
    /\ last.outcome.kind = "return"
    /\ last.outcome.value = Len(table) - Len(last.before)
    /\ last.outcome.value = Cardinality(KeysOf(StagedRows) \ KeysOf(last.before))

C5_NoKeyAppendsAll ==
  (CleanSync /\ ~has_pk) =>
    /\ last.outcome = Ret(Len(StagedRows))
    /\ table = last.before \o [i \in 1..Len(StagedRows) |-> TargetRow(StagedRows[i])]

\* C6: a call in which a step fails (the primary-key lookup included) ends
\* with the error raised and has inserted nothing.
C6_FailureAborts ==
  (last.op # "none" /\ last.hit) =>
    /\ last.outcome.kind = "raise"
    /\ table = last.before

\* no object under the prefix is a .parquet file
NoParquetUnder(prefix) ==
  \A n \in DOMAIN store : ~(n[1] = prefix /\ n[Len(n)] = ".parquet")

\* C7: a synchronisation whose listing finds no .parquet object under the
\* prefix returns 0, runs no statement on the database and leaves the table
\* unchanged; other objects under the prefix do not count.
C7_EmptyPrefix ==
  (last.op = "sync" /\ last.fault # "list" /\ NoParquetUnder(last.prefix)) =>
    /\ last.outcome = Ret(0)
    /\ last.sql = <<>>
    /\ table = last.before

\* a writable client synchronised a prefix that holds an object, none of them
\* a .parquet file, into a table that holds rows
C7_Witness ==
  /\ last.op = "sync" /\ last.fault = "none" /\ ~read_only
  /\ NoParquetUnder(last.prefix)
  /\ \E n \in DOMAIN store : n[1] = last.prefix
  /\ table # <<>>
  /\ last.outcome = Ret(0)

\* C8: of staged files with extra columns the insert succeeds and adds rows of
\* the target's columns only; of staged files that lack a target column the
\* insert fails and the table gets none of the staged rows.
C8_ColumnsOfTarget ==
  (last.op = "sync" /\ last.fault = "none" /\ ~read_only /\ StagedRows # <<>>) =>
    /\ (TargetColSet \subseteq file_cols /\ "extra" \in file_cols)
         => last.outcome.kind = "return"
    /\ ~(TargetColSet \subseteq file_cols)
         => (last.outcome.kind = "raise" /\ table = last.before)

\* C10: parsing the full_path of a successfully constructed StorageKey gives a
\* key equal to it in every field.
C10_RoundTrip ==
  (key.built.error = "" /\ key.parsed # NoResult) => key.parsed = key.built
\* the path parsed last has fewer than 6 segments
ShortPath == key.parsed # NoResult /\ Len(Split(key.path, "/")) < 6

\* C11: every path from_path accepts is the full_path of the key it returns
\* (so no two paths parse to the same key).
C11_ParseInverts ==
  key.parsed.error = "" => full_path(key.parsed.key) = key.path

\* C12: a path of fewer than 6 segments is rejected with the malformed-path
\* error (ValueError "Caminho invalido" in the code) and no key is constructed.
C12_ShortPathFails ==
  ShortPath =>
    /\ key.parsed.error = "ValueError: Caminho invalido"
    /\ key.parsed.key = NoFields

\* a path of five segments, all well formed, was parsed
C12_Witness ==
  /\ key.via = "from_path"
  /\ key.path = Join(<<<<"avian_cases">>, <<"b">>,
                        <<"year", "=", "2", "0", "2", "3">>,
                        <<"month", "=", "0", "5">>, <<"day", "=", "0", "1">>>>, "/")
  /\ key.parsed.error # "none"
\* segment i of the path parsed last is <name>=<value> with no further "="
DateSegment(i, name) ==
  LET kv == Split(Split(key.path, "/")[i], "=")
  IN Len(kv) = 2 /\ kv[1] = <<name>>

\* C13: a path of 6 or more segments whose third, fourth and fifth segments
\* are not year=<v>, month=<v>, day=<v> in this order is rejected with the
\* malformed-path error and yields no key.
C13_DateSegmentsChecked ==
  (/\ key.parsed # NoResult
   /\ Len(Split(key.path, "/")) >= 6
   /\ ~(DateSegment(3, "year") /\ DateSegment(4, "month") /\ DateSegment(5, "day")))
    => /\ key.parsed.error = "ValueError: Caminho invalido"
       /\ key.parsed.key = NoFields

\* C14: a path of 6 or more segments whose first segment is no member of
\* DataCategory is rejected with the invalid-category error, whatever the
\* other segments hold.
C14_UnknownCategoryFails ==
  (/\ key.parsed # NoResult
   /\ Len(Split(key.path, "/")) >= 6
   /\ Split(key.path, "/")[1] \notin DataCategory)
    => /\ key.parsed.error = "ValueError: Categoria invalida"
       /\ key.parsed.key = NoFields
\* year, month and day of a key are numeric and in range
ValidDateFields(k) ==
  /\ IsDigit(k.year) /\ Len(k.year) = 4
  /\ IsDigit(k.month) /\ 1 <= ToInt(k.month) /\ ToInt(k.month) <= 12
  /\ IsDigit(k.day) /\ 1 <= ToInt(k.day) /\ ToInt(k.day) <= 31

\* C15: every StorageKey that was constructed, on whatever construction
\* path, has a numeric 4-digit year, a month in 1..12 and a day in 1..31.
C15_DateFieldsValid ==
  /\ key.built.error = "" => ValidDateFields(key.built.key)
  /\ key.parsed.error = "" => ValidDateFields(key.parsed.key)

\* C16: the full_path of every constructed StorageKey has the wire format:
\* no "/" in category and source, a year of 4 digits, month and day of
\* exactly 2 digits.
C16_WireFormat ==
  \A k \in {r.key : r \in {q \in {key.built, key.parsed} : q.error = ""}} :
    /\ \A i \in 1..Len(k.category) : k.category[i] # "/"
    /\ \A i \in 1..Len(k.source) : k.source[i] # "/"
    /\ IsDigit(k.year) /\ Len(k.year) = 4
    /\ IsDigit(k.month) /\ Len(k.month) = 2
    /\ IsDigit(k.day) /\ Len(k.day) = 2

\* C17: the source of a key built by to_storage_key consists of lower-case
\* alphanumerics and "_" only.
C17_SourceNormalized ==
  (key.via = "to_storage_key" /\ key.built.error = "") =>
    \A i \in 1..Len(key.built.key.source) :
      key.built.key.source[i] \in {"a", "b", "_"} \cup DigitSet
\* the same (source, timestamp to the second, uuid) in two calls
SameInputs(c, d) ==
  /\ c.source = d.source
  /\ c.ts = d.ts
  /\ c.uuid = d.uuid

\* C18: two uploads of the same kind that differ in source, in the second of
\* their timestamp or in their uuid put their objects under different paths.
C18_NoCollision ==
  \A i, j \in 1..Len(paths.calls) :
    LET c == paths.calls[i]
        d == paths.calls[j]
    IN (/\ c.via = d.via
        /\ c.via \in {"upload_parquet", "generate_key", "upload_dataframe"}
        /\ ~SameInputs(c, d))
         => c.path # d.path

\* the code point of a character of a path
CharCode(c) ==
  CASE c = "/" -> 47
    [] c \in DigitSet -> 48 + (CHOOSE n \in 0..9 : Digits[n + 1] = c)
    [] c = "=" -> 61
    [] c = "day" -> 100
    [] c = "month" -> 109
    [] c = "year" -> 121
    [] OTHER -> 122

RECURSIVE LexLess(_, _)
\* a < b for strings
LexLess(a, b) ==
  IF b = <<>> THEN FALSE
  ELSE IF a = <<>> THEN TRUE
  ELSE IF CharCode(Head(a)) # CharCode(Head(b))
  THEN CharCode(Head(a)) < CharCode(Head(b))
  ELSE LexLess(Tail(a), Tail(b))

\* the date of s is before the date of t
DateBefore(s, t) ==
  \/ s.year < t.year
  \/ s.year = t.year /\ s.month < t.month
  \/ s.year = t.year /\ s.month = t.month /\ s.day < t.day

\* C19: of two paths built for the same source, the partition text
\* year=YYYY/month=MM/day=DD of the earlier date is lexicographically smaller.
C19_OrderPreserved ==
  \A i, j \in 1..Len(paths.calls) :
    LET c == paths.calls[i]
        d == paths.calls[j]
    IN (/\ c.via = d.via
        /\ c.source = d.source
        /\ c.date # <<>> /\ d.date # <<>>
        /\ DateBefore(c.ts, d.ts))
         => LexLess(c.date, d.date)

\* ------------------------------------------------- schema initialization
\* a database file that is new, or that holds the two tables already
InitSchema ==
  /\ store = [n \in {<<"q/", "c", ".csv">>} |-> <<>>]
  /\ file_cols = TargetColSet
  /\ has_pk = TRUE
  /\ table = <<>>
  /\ read_only \in BOOLEAN
  /\ temps = {}
  /\ last = NoCall
  /\ key = NoKey
  /\ paths = NoPaths
  /\ conv = NoConv
  /\ InitRest
  /\ \E fmt \in {"value", "name"}, full \in BOOLEAN :
       catalog =
         [NoCatalog EXCEPT
            !.fmt = fmt,
            !.db.tables =
              IF full
              THEN [n \in SchemaTables |->
                      [columns |-> SchemaColumns, pk |-> {"pk"}, rows |-> <<>>]]
              ELSE <<>>]

\* the relations as a call finds them
Relations(db) == [db EXCEPT !.error = "", !.sql = <<>>]

\* a caller runs DuckDBClient.initialize_schema(tables, views)
InitializeSchema ==
  \E tables \in SchemaLists(TableSchemas, MaxSchemas),
     views \in SchemaLists(ViewSchemas, MaxSchemas) :
    /\ catalog' =
         [catalog EXCEPT
            !.db = initialize_schema(Relations(catalog.db), read_only, tables, views,
                                     catalog.fmt),
            !.last = [op |-> "initialize_schema", tables |-> tables, views |-> views,
                      repeat |-> /\ catalog.last.op = "initialize_schema"
                                 /\ catalog.last.tables = tables
                                 /\ catalog.last.views = views
                                 /\ catalog.db.error = ""]]
    /\ UNCHANGED <<syncvars, key, paths, conv, gateway, instances, logcfg, archived>>

\* a caller runs the initialize_schema() of src/src on a writable database
InitializeSchemaLegacy ==
  /\ ~read_only
  /\ catalog' =
       [catalog EXCEPT
          !.db = legacy_initialize_schema(Relations(catalog.db), catalog.fmt),
          !.last = [op |-> "legacy_initialize_schema",
                    tables |-> <<AVIAN_CASES_SCHEMA, SURVEILLANCE_SCHEMA>>,
                    views |-> <<CASES_BY_REGION_VIEW, SURVEILLANCE_SUMMARY_VIEW>>,
                    repeat |-> /\ catalog.last.op = "legacy_initialize_schema"
                               /\ catalog.db.error = ""]]
  /\ UNCHANGED <<syncvars, key, paths, conv, gateway, instances, logcfg, archived>>

\* rows get stored in a table between two schema runs
StoreRow ==
  \E n \in DOMAIN catalog.db.tables :
    /\ ~read_only
    /\ Len(catalog.db.tables[n].rows) < MaxStored
    /\ catalog' =
         [catalog EXCEPT
            !.db = [Relations(catalog.db) EXCEPT
                      !.tables[n].rows = Append(@, Len(@) + 1)],
            !.last = [NoSchemaCall EXCEPT !.op = "insert"]]
    /\ UNCHANGED <<syncvars, key, paths, conv, gateway, instances, logcfg, archived>>

\* a client opened with read_only=True on a database that exists
InitReadOnly ==
  /\ store = [n \in {<<"q/", "c", ".csv">>} |-> <<>>]
  /\ file_cols = TargetColSet
  /\ has_pk = TRUE
  /\ table \in TablePool
  /\ read_only = TRUE
  /\ temps = {}
  /\ last = NoCall
  /\ key = NoKey
  /\ paths = NoPaths
  /\ conv = NoConv
  /\ InitRest
  /\ \E full \in BOOLEAN :
       catalog =
         [NoCatalog EXCEPT
            !.db.tables =
              IF full
              THEN [n \in SchemaTables |->
                      [columns |-> SchemaColumns, pk |-> {"pk"}, rows |-> <<>>]]
              ELSE <<>>]

NextReadOnly == InitializeSchema \/ InsertDataframe
SpecReadOnly == InitReadOnly /\ [][NextReadOnly]_vars

NextSchema == InitializeSchema \/ InitializeSchemaLegacy \/ StoreRow
SpecSchema == InitSchema /\ [][NextSchema]_vars

\* ---------------------------------------------- gateway operations runs
InitGateway ==
  /\ store = [n \in {<<"q/", "c", ".csv">>} |-> <<>>]
  /\ file_cols = TargetColSet
  /\ has_pk = TRUE
  /\ table = <<>>
  /\ read_only = FALSE
  /\ temps = {}
  /\ last = NoCall
  /\ key = NoKey
  /\ paths = NoPaths
  /\ conv = NoConv
  /\ InitNew

EnsureBucketExists ==
  \E fault \in GatewayFaults :
    /\ gateway' = AfterCall("ensure_bucket_exists", "", fault,
                            ensure_bucket_exists(gateway, fault))
    /\ UNCHANGED <<syncvars, key, paths, conv, catalog, instances, logcfg, archived>>

ListObjects ==
  \E fault \in GatewayFaults :
    /\ gateway' = AfterCall("list_objects", "", fault,
                            gateway_list_objects(gateway, fault))
    /\ UNCHANGED <<syncvars, key, paths, conv, catalog, instances, logcfg, archived>>

UploadObject ==
  \E path \in ArchivePaths, fault \in GatewayFaults :
    /\ gateway' = AfterCall("upload_object", path, fault,
                            upload_object(gateway, path, fault))
    /\ UNCHANGED <<syncvars, key, paths, conv, catalog, instances, logcfg, archived>>

DownloadObject ==
  \E path \in ArchivePaths, fault \in GatewayFaults :
    /\ gateway' = AfterCall("download_object", path, fault,
                            download_object(gateway, path, fault))
    /\ UNCHANGED <<syncvars, key, paths, conv, catalog, instances, logcfg, archived>>

DeleteObject ==
  \E path \in ArchivePaths, fault \in GatewayFaults :
    /\ gateway' = AfterCall("delete_object", path, fault,
                            delete_object(gateway, path, fault))
    /\ UNCHANGED <<syncvars, key, paths, conv, catalog, instances, logcfg, archived>>

ObjectExists ==
  \E path \in ArchivePaths, fault \in GatewayFaults :
    /\ gateway' = AfterCall("object_exists", path, fault,
                            object_exists(gateway, path, fault))
    /\ UNCHANGED <<syncvars, key, paths, conv, catalog, instances, logcfg, archived>>

NextGateway ==
  \/ EnsureBucketExists \/ ListObjects \/ UploadObject
  \/ DownloadObject \/ DeleteObject \/ ObjectExists
SpecGateway == InitGateway /\ [][NextGateway]_vars

\* ------------------------------------------------------ shared client runs
InitInstances ==
  /\ store = [n \in {<<"q/", "c", ".csv">>} |-> <<>>]
  /\ file_cols = TargetColSet
  /\ has_pk = TRUE
  /\ table = <<>>
  /\ read_only = FALSE
  /\ temps = {}
  /\ last = NoCall
  /\ key = NoKey
  /\ paths = NoPaths
  /\ conv = NoConv
  /\ InitNew

\* a caller runs MinioClient.get_instance(config), config None included
GetInstance ==
  \E config \in MinIOConfigs \cup {NoConfig} :
    /\ Len(instances.calls) < MaxGets
    /\ instances' = get_instance(instances, config)
    /\ UNCHANGED <<syncvars, key, paths, conv, catalog, gateway, logcfg, archived>>

NextInstances == GetInstance
SpecInstances == InitInstances /\ [][NextInstances]_vars

\* ------------------------------------------------------------ logging runs
\* a process in which other code may have put a handler on the root logger,
\* with LOG_LEVEL in the environment
InitLogging ==
  /\ store = [n \in {<<"q/", "c", ".csv">>} |-> <<>>]
  /\ file_cols = TargetColSet
  /\ has_pk = TRUE
  /\ table = <<>>
  /\ read_only = FALSE
  /\ temps = {}
  /\ last = NoCall
  /\ key = NoKey
  /\ paths = NoPaths
  /\ conv = NoConv
  /\ catalog = NoCatalog
  /\ gateway = NoGateway
  /\ instances = NoInstances
  /\ archived = NoArchive
  /\ \E level \in {"DEBUG", "INFO"}, handlers \in {<<>>, <<"other">>} :
       logcfg = [NoLogging EXCEPT !.env_level = level, !.root.handlers = handlers]

\* logger.py:166-191  the first import of configs.logger: the module-level
\* default configuration (config has no environment field: is_dev is True)
ImportLogger ==
  /\ ~logcfg.imported
  /\ logcfg' =
       [configure(logcfg,
                  [log_level |-> logcfg.env_level, log_file |-> "", use_colors |-> TRUE],
                  logcfg.env_level)
          EXCEPT !.imported = TRUE, !.op = "import"]
  /\ UNCHANGED <<syncvars, key, paths, conv, catalog, gateway, instances, archived>>

\* a caller runs LoggerConfig.configure / configure_logging with arguments
Configure ==
  \E args \in ConfigureArgs :
    /\ logcfg.imported
    /\ logcfg' = [configure(logcfg, args, logcfg.env_level) EXCEPT
                    !.op = "configure", !.args = args]
    /\ UNCHANGED <<syncvars, key, paths, conv, catalog, gateway, instances, archived>>

\* a caller runs get_logger(name)
GetLogger ==
  \E name \in LoggerNames :
    /\ logcfg.imported
    /\ Len(logcfg.calls) < MaxLogCalls
    /\ logcfg' = [get_logger(logcfg, name, logcfg.env_level) EXCEPT
                    !.op = "get_logger"]
    /\ UNCHANGED <<syncvars, key, paths, conv, catalog, gateway, instances, archived>>

NextLogging == ImportLogger \/ Configure \/ GetLogger
SpecLogging == InitLogging /\ [][NextLogging]_vars

\* ------------------------------------------------ archive and process runs
\* an orchestrator on an empty archive bucket and a target table that may
\* hold rows
InitArchive ==
  /\ store = [n \in {<<"q/", "c", ".csv">>} |-> <<>>]
  /\ file_cols = TargetColSet
  /\ has_pk = TRUE
  /\ table \in TablePool
  /\ read_only \in BOOLEAN
  /\ temps = {}
  /\ last = NoCall
  /\ key = NoKey
  /\ paths = NoPaths
  /\ conv = NoConv
  /\ InitNew

\* a caller runs DataOrchestrator.archive_and_process(data_source, ...)
ArchiveAndProcess ==
  \E source \in DataSources, gfault \in GatewayFaults, found \in BOOLEAN,
     fault \in InsertFaults :
    LET r == archive_and_process(gateway, table, temps, has_pk, read_only, source,
                                 gfault, found, fault)
    IN /\ gateway' = [gateway EXCEPT !.bucket = r.bucket, !.objects = r.objects]
       /\ table' = r.rows
       /\ temps' = r.temps
       /\ archived' = [op |-> "archive_and_process", kind |-> source.kind,
                       objects |-> gateway.objects, before |-> table,
                       outcome |-> r.outcome, results |-> r.results,
                       steps |-> r.steps]
       /\ UNCHANGED <<store, file_cols, has_pk, read_only, last, key, paths, conv,
                      catalog, instances, logcfg>>

\* the clock second of the staging table's name ends
ArchiveTick ==
  /\ "now" \in temps
  /\ temps' = {"old"}
  /\ archived' = NoArchive
  /\ UNCHANGED <<store, file_cols, table, has_pk, read_only, last, key, paths, conv,
                 catalog, gateway, instances, logcfg>>

\* the archived object is removed from the bucket by its owner
ArchiveRemoved ==
  /\ gateway.objects # {}
  /\ gateway' = [gateway EXCEPT !.objects = {}]
  /\ archived' = NoArchive
  /\ UNCHANGED <<syncvars, key, paths, conv, catalog, instances, logcfg>>

NextArchive == ArchiveAndProcess \/ ArchiveTick \/ ArchiveRemoved
SpecArchive == InitArchive /\ [][NextArchive]_vars

\* ------------------------------------------- converting batches to models
\* the state after construction for the conversion: nothing converted yet
InitConv ==
  /\ store = [n \in {<<"q/", "c", ".csv">>} |-> <<>>]
  /\ file_cols = TargetColSet
  /\ has_pk = TRUE
  /\ table = <<>>
  /\ read_only = FALSE
  /\ temps = {}
  /\ last = NoCall
  /\ key = NoKey
  /\ paths = NoPaths
  /\ conv = NoConv
  /\ InitNew

\* DataTransformer.dataframe_to_models(df, model_class) on a batch of up to
\* MaxBatch rows, any of which may lack the required or the optional field
DataframeToModels ==
  \E rows \in SeqsUpTo(ConvRows, MaxBatch) :
    LET df == [cols |-> ConvCols, rows |-> rows]
    IN /\ conv' = [via |-> "dataframe_to_models", src |-> <<>>, df |-> df,
                   out |-> dataframe_to_models(df)]
       /\ UNCHANGED <<syncvars, key, paths, newvars>>

\* model_to_dataframe on up to MaxBatch validated records with unique primary
\* keys, then dataframe_to_models on the DataFrame it gave
RoundTrip ==
  \E models \in SeqsUpTo(Models, MaxBatch) :
    /\ DistinctKeys(models)
    /\ LET df == model_to_dataframe(models)
       IN conv' = [via |-> "round_trip", src |-> models, df |-> df,
                   out |-> dataframe_to_models(df)]
    /\ UNCHANGED <<syncvars, key, paths, newvars>>

NextConv == DataframeToModels \/ RoundTrip
SpecConv == InitConv /\ [][NextConv]_vars

CountLog(log, what) == Cardinality({i \in 1..Len(log) : log[i] = what})

C21_ModelsRoundTrip ==
  conv.via = "round_trip" =>
    /\ ~conv.out.raised
    /\ conv.out.models = conv.src
    /\ Len(conv.out.errors) = 0

\* two records went through the round trip, one of them with its optional
\* field unset (a missing value in the DataFrame)
C21_Witness ==
  /\ conv.via = "round_trip"
  /\ Len(conv.src) = 2
  /\ conv.src[1].val = "None" /\ conv.df.rows[1].val = "-"
  /\ conv.src[2].val = "a"
  /\ Len(conv.out.models) = 2

\* the columns a table definition marks PRIMARY KEY
MarkedColumns(sql) ==
  {sql.columns[i].col : i \in {j \in 1..Len(sql.columns) : sql.columns[j].pk}}

\* C22: schema initialization is idempotent: a run keeps every table that
\* exists with its columns, primary key and rows, a second run with the same
\* schemas right after a successful one leaves tables and views as they were,
\* and each table definition sent marks PRIMARY KEY exactly the column named
\* by primary_key, none when it is unset.
C22_SchemaIdempotent ==
  [][catalog'.last.op \in {"initialize_schema", "legacy_initialize_schema"} =>
       LET d == catalog.db
           e == catalog'.db
           schemas == catalog'.last.tables
       IN /\ \A n \in DOMAIN d.tables :
               n \in DOMAIN e.tables /\ e.tables[n] = d.tables[n]
          /\ catalog'.last.repeat =>
               (e.tables = d.tables /\ e.views = d.views /\ e.error = "")
          /\ \A i \in 1..Len(e.sql) :
               i <= Len(schemas) =>
                 /\ e.sql[i].stmt = "CREATE TABLE IF NOT EXISTS"
                 /\ MarkedColumns(e.sql[i]) =
                      IF schemas[i].primary_key = "" THEN {}
                      ELSE {schemas[i].primary_key}]_vars

\* a second run of the same schemas, views included, on tables that hold rows
C22_Witness ==
  /\ catalog.last.op = "initialize_schema"
  /\ catalog.last.repeat
  /\ catalog.db.error = ""
  /\ Len(catalog.last.views) > 0
  /\ \E i \in 1..Len(catalog.last.tables) :
       /\ catalog.last.tables[i].primary_key = "pk"
       /\ catalog.last.tables[i].name \in DOMAIN catalog.db.tables
       /\ Len(catalog.db.tables[catalog.last.tables[i].name].rows) > 0

IsViewStatement(sql) == sql.stmt = "CREATE OR REPLACE VIEW"

\* the table the query of a view reads
ReadBy(view) == (CHOOSE v \in ViewSchemas : v.name = view).reads

\* C27: schema initialization creates every table before any view: no view
\* exists while the table it reads is missing, no table statement of a run
\* follows a view statement, and a run whose table creation fails ends with
\* the error before any view statement is sent.
C27_TablesBeforeViews ==
  /\ \A v \in catalog.db.views : ReadBy(v) \in DOMAIN catalog.db.tables
  /\ catalog.last.op \in {"initialize_schema", "legacy_initialize_schema"} =>
       LET sql == catalog.db.sql
       IN /\ \A i, j \in 1..Len(sql) :
               (i < j /\ IsViewStatement(sql[i])) => IsViewStatement(sql[j])
          /\ (catalog.db.error # "" /\ ~IsViewStatement(sql[Len(sql)])) =>
               \A i \in 1..Len(sql) : ~IsViewStatement(sql[i])
          /\ catalog.db.error = "" =>
               Len(sql) \in {0, Len(catalog.last.tables) + Len(catalog.last.views)}

\* a run given tables and views whose table creation failed: it ended with the
\* error and sent no view statement
C27_Witness ==
  /\ catalog.last.op = "initialize_schema"
  /\ Len(catalog.last.views) > 0
  /\ catalog.db.error = "CatalogException"
  /\ Len(catalog.db.sql) <= Len(catalog.last.tables)
  /\ catalog.db.views = {}

\* C28: a client opened with read_only=True never changes the database
\* through its write operations: insert_dataframe returns 0 and
\* initialize_schema returns, neither sends a statement, creates a staging
\* table or raises.
C28_ReadOnlyFrame ==
  [][read_only =>
       /\ table' = table /\ temps' = temps
       /\ catalog'.db.tables = catalog.db.tables
       /\ catalog'.db.views = catalog.db.views
       /\ catalog'.db.sql = <<>> /\ catalog'.db.error = ""
       /\ last'.outcome = Ret(0) /\ last'.sql = <<>>]_vars

\* both write operations were called on the read-only client, with rows to
\* insert and schemas to create
C28_Witness ==
  /\ read_only
  /\ last.op = "insert" /\ last.outcome = Ret(0)
  /\ catalog.last.op = "initialize_schema"
  /\ Len(catalog.last.tables) > 0 /\ Len(catalog.last.views) > 0
  /\ catalog.db.tables = <<>>

\* C25: the staging relation is ephemeral: when insert_dataframe has
\* finished, with a count or with an error, no staging table it created is
\* left in the session, so a later call, one in the same clock second
\* included, is not blocked by a leftover staging table.
C25_StagingEphemeral ==
  last.op = "insert" => temps = {}

\* C23: ingest_models_to_database returns 0 without touching the database
\* when models is empty; for a non-empty list it inserts the rows of the
\* models whose primary key is not in the table yet and returns their number.
C23_IngestInserts ==
  last.op = "ingest" =>
    /\ Len(last.arg) = 0 =>
         (last.outcome = Ret(0) /\ last.sql = <<>> /\ table = last.before)
    /\ (Len(last.arg) > 0 /\ ~read_only /\ last.fault = "none"
        /\ "create_temp" \in {last.sql[i] : i \in 1..Len(last.sql)}
        /\ Len(last.sql) > 1) =>
         /\ last.outcome = Ret(Len(table) - Len(last.before))
         /\ KeysOf(table) = KeysOf(last.before) \cup KeysOf(last.arg)

\* C24: a gateway operation whose underlying call fails (network,
\* permission, missing bucket) calls once, logs, and ends with the error; none
\* turns the failure into a normal return value, the existence check included.
C24_FailurePropagates ==
  gateway.last.failed =>
    /\ gateway.last.outcome.kind = "raise"
    /\ gateway.last.logged >= 1
    /\ \A i, j \in 1..Len(gateway.last.calls) :
         gateway.last.calls[i] = gateway.last.calls[j] => i = j

\* C29: get_instance keeps at most one shared client per endpoint: calls with
\* the same endpoint returned the same client object, calls with different
\* endpoints different objects, and a cached entry is never replaced: a later
\* call with other credentials still gets the client of the first
\* configuration.
C29_OnePerEndpoint ==
  LET calls == instances.calls
  IN /\ \A i, j \in 1..Len(calls) :
          (calls[i].config.endpoint = calls[j].config.endpoint)
            <=> (calls[i].returned.id = calls[j].returned.id)
     /\ \A i, j \in 1..Len(calls) :
          (i <= j /\ calls[i].config.endpoint = calls[j].config.endpoint
           /\ \A h \in 1..(i - 1) : calls[h].config.endpoint # calls[i].config.endpoint)
            => calls[j].returned.config = calls[i].config
     /\ \A e \in DOMAIN instances.cache :
          \E i \in 1..Len(calls) : calls[i].returned = instances.cache[e]

\* three calls: two endpoints, and the first endpoint again with other
\* credentials
C29_Witness ==
  /\ Len(instances.calls) = 3
  /\ instances.calls[1].config.endpoint # instances.calls[2].config.endpoint
  /\ instances.calls[3].config.endpoint = instances.calls[1].config.endpoint
  /\ instances.calls[3].config.access_key # instances.calls[1].config.access_key
  /\ instances.calls[3].returned = instances.calls[1].returned

C26_UploadThenInsert ==
  archived.op = "archive_and_process" =>
    /\ archived.kind \in {"list", "unsupported"} =>
         /\ archived.steps = <<>>
         /\ archived.outcome.kind = "return" /\ archived.results = NoResults
         /\ gateway.objects = archived.objects /\ table = archived.before
    /\ archived.kind \in {"models", "dataframe"} =>
         /\ archived.steps \in {<<"upload">>, <<"upload", "insert">>}
         /\ archived.steps = <<"upload">> =>
              /\ archived.outcome.kind = "raise"
              /\ ArchivePath \in gateway.objects => ArchivePath \in archived.objects
              /\ table = archived.before
         /\ archived.steps = <<"upload", "insert">> =>
              /\ ArchivePath \in gateway.objects
              /\ archived.outcome.kind = "return" =>
                   archived.results =
                     [archived_uri |-> ArchivePath,
                      records_processed |-> Len(table) - Len(archived.before)]

\* the upload succeeded, the insert then failed: the error left the call and
\* the object archived by it is in the bucket
C26_Witness ==
  /\ archived.op = "archive_and_process"
  /\ archived.kind = "models"
  /\ archived.steps = <<"upload", "insert">>
  /\ archived.outcome.kind = "raise"
  /\ ArchivePath \in gateway.objects /\ ArchivePath \notin archived.objects
  /\ table = archived.before

TypeOK ==
  /\ DOMAIN store \subseteq ObjNames
  /\ file_cols \in ColSets
  /\ has_pk \in BOOLEAN /\ read_only \in BOOLEAN
  /\ temps \subseteq {"now", "old"}
  /\ last.outcome \in Outcome
  /\ conv.out.raised \in BOOLEAN
  /\ catalog.fmt \in {"value", "name"}
  /\ key.built.error \in
       {"none", "", "ValueError: Formato de ano invalido",
        "ValueError: Formato de mes invalido", "ValueError: Formato de dia invalido"}

====
